---- MODULE Spec2Model ----
(***************************************************************************)
(* A model of src/app.py: the review parser (parse_review), the CSV        *)
(* evaluation store (save_results, get_user_progress) and the session      *)
(* logic of the main script that drives them.                              *)
(*                                                                         *)
(* A Python str is a sequence of one-character strings.                    *)
(***************************************************************************)
EXTENDS Integers, Sequences, FiniteSets, TLC

VARIABLES
    \* parse_review: its argument, its four re.search results, its result
    review_text, n_pieces, matches, sections, parse_pc,
    \* the results file at RESULTS_CSV_PATH, and the clock datetime.now() reads
    file, now,
    \* the records whose save_results call has returned, in order (history)
    submitted,
    \* the last store call: the user asked about, what get_user_progress
    \* returned, and how the call ended
    queried, progress, outcome,
    \* st.session_state: user (NoUser while the key is not set), review_index,
    \* review_queue, and the four number inputs of the form as last submitted
    ss_user, review_index, review_queue, scores,
    \* the sidebar's selectbox, and what the last run of the script rendered
    selected_user, screen,
    \* whether a to_csv call has ever failed (history)
    write_failed,
    \* two processes inside save_results: where each one is, the record it
    \* was given and the DataFrame it holds
    wpc, wrec, wframe,
    \* whether a process has read the file while the other held a DataFrame
    \* it had not yet written (history)
    overlapped

parse_vars == <<review_text, n_pieces, matches, sections, parse_pc>>
store_vars == <<file, now, submitted, queried, progress, outcome>>
session_vars == <<ss_user, review_index, review_queue, scores, selected_user, screen,
                  write_failed>>
race_vars == <<wpc, wrec, wframe, overlapped>>
vars == <<parse_vars, store_vars, session_vars, race_vars>>

-----------------------------------------------------------------------------
(* Bounds of the model.                                                     *)

\* the number of pieces a review text is assembled from
MaxPieces == 4
\* the number of records constructed (the clock stops there)
MaxRecords == 3

-----------------------------------------------------------------------------
(* Python str operations.                                                   *)

Min(S) == CHOOSE x \in S : \A y \in S : x <= y
Max(S) == CHOOSE x \in S : \A y \in S : x >= y

\* the characters str.strip() removes, among those the model's texts hold
Whitespace == {" ", "\n"}

\* pat occurs in s at index i
StartsAt(pat, s, i) ==
    /\ i >= 1
    /\ i + Len(pat) - 1 <= Len(s)
    /\ SubSeq(s, i, i + Len(pat) - 1) = pat

\* the first index >= from at which pat occurs in s, 0 when there is none
Find(pat, s, from) ==
    LET C == {i \in from..(Len(s) - Len(pat) + 1) : StartsAt(pat, s, i)}
    IN  IF C = {} THEN 0 ELSE Min(C)

\* str.strip()
Strip(s) ==
    LET C == {i \in 1..Len(s) : s[i] \notin Whitespace}
    IN  IF C = {} THEN <<>> ELSE SubSeq(s, Min(C), Max(C))

\* str.split(sep): the pieces between the occurrences of sep, left to right
RECURSIVE Split(_, _)
Split(s, sep) ==
    LET i == Find(sep, s, 1)
    IN  IF i = 0 THEN <<s>>
        ELSE <<SubSeq(s, 1, i - 1)>> \o Split(SubSeq(s, i + Len(sep), Len(s)), sep)

-----------------------------------------------------------------------------
(* parse_review.                                                            *)

MarkerSummary == <<"*", "*", "S", "u", "m", "m", "a", "r", "y", "*", "*">>
MarkerStrengths == <<"*", "*", "S", "t", "r", "e", "n", "g", "t", "h", "s", "*", "*">>
MarkerWeaknesses == <<"*", "*", "W", "e", "a", "k", "n", "e", "s", "s", "e", "s", "*", "*">>
MarkerQuestions == <<"*", "*", "Q", "u", "e", "s", "t", "i", "o", "n", "s", "*", "*">>
NotAvailable == <<"N", "o", "t", " ", "A", "v", "a", "i", "l", "a", "b", "l", "e">>

SectionNames == {"Summary", "Strengths", "Weaknesses", "Questions"}
PointSections == <<"Strengths", "Weaknesses", "Questions">>

NoMatch == [found |-> FALSE, group |-> <<>>]

\* re.search(marker (.*?) (?=stop|\Z), s, re.DOTALL): the first occurrence of
\* marker; group 1 runs to the first later occurrence of stop, else to the end
SearchUntil(marker, stop, s) ==
    LET m == Find(marker, s, 1)
        b == m + Len(marker)
        e == Find(stop, s, b)
    IN  IF m = 0 THEN NoMatch
        ELSE [found |-> TRUE,
              group |-> SubSeq(s, b, IF e = 0 THEN Len(s) ELSE e - 1)]

\* re.search(marker (.*), s, re.DOTALL): group 1 runs to the end
SearchToEnd(marker, s) ==
    LET m == Find(marker, s, 1)
    IN  IF m = 0 THEN NoMatch
        ELSE [found |-> TRUE, group |-> SubSeq(s, m + Len(marker), Len(s))]

\* summary_match, strengths_match, weaknesses_match, questions_match
SectionMatches(s) ==
    [Summary |-> SearchUntil(MarkerSummary, MarkerStrengths, s),
     Strengths |-> SearchUntil(MarkerStrengths, MarkerWeaknesses, s),
     Weaknesses |-> SearchUntil(MarkerWeaknesses, MarkerQuestions, s),
     Questions |-> SearchToEnd(MarkerQuestions, s)]

\* CleanPoint without lines 59-60: the hyphen of a point is kept
CleanPointKeepHyphen(point) == Strip(point)

\* the loop body: strip, drop one leading hyphen left by the split, strip
CleanPoint(point) ==
    LET cleaned == Strip(point)
    IN  IF cleaned # <<>> /\ cleaned[1] = "-" THEN Strip(Tail(cleaned)) ELSE cleaned

\* cleaned_points of one section's content
CleanedPoints(group) ==
    LET raw_points == Split(Strip(group), <<"\n", "-">>)
        cleaned == [i \in 1..Len(raw_points) |-> CleanPoint(raw_points[i])]
    IN  SelectSeq(cleaned, LAMBDA p : p # <<>>)

SectionsOf(m) ==
    [Summary |-> IF m.Summary.found /\ Strip(m.Summary.group) # <<>>
                 THEN <<Strip(m.Summary.group)>> ELSE <<>>,
     Strengths |-> IF m.Strengths.found THEN CleanedPoints(m.Strengths.group) ELSE <<>>,
     Weaknesses |-> IF m.Weaknesses.found THEN CleanedPoints(m.Weaknesses.group) ELSE <<>>,
     Questions |-> IF m.Questions.found THEN CleanedPoints(m.Questions.group) ELSE <<>>]

NoMatches == [n \in SectionNames |-> NoMatch]
NoSections == [n \in SectionNames |-> <<>>]

\* the value parse_review returns; a review text is [isstr, s]
parse_review(rt) ==
    IF ~rt.isstr
    THEN [Summary |-> <<NotAvailable>>, Strengths |-> <<>>,
          Weaknesses |-> <<>>, Questions |-> <<>>]
    ELSE SectionsOf(SectionMatches(rt.s))

-----------------------------------------------------------------------------
(* Values of a DataFrame cell, and their text in a CSV file.                *)
(* A float holds tenths (a score 3.0 is 30), so its text has one decimal.   *)

StrVal(s) == [t |-> "str", s |-> s, n |-> 0]
IntVal(n) == [t |-> "int", s |-> <<>>, n |-> n]
FloatVal(tenths) == [t |-> "float", s |-> <<>>, n |-> tenths]
NaN == [t |-> "nan", s |-> <<>>, n |-> 0]

DigitChars == <<"0", "1", "2", "3", "4", "5", "6", "7", "8", "9">>
Digits == {DigitChars[i] : i \in 1..10}
DigitValue(c) == (CHOOSE i \in 1..10 : DigitChars[i] = c) - 1

\* the texts read_csv reads as a missing value (its default na_values)
NaTexts ==
    {<<>>, <<"N", "A">>, <<"N", "a", "N">>, <<"n", "a", "n">>,
     <<"n", "u", "l", "l">>, <<"N", "U", "L", "L">>, <<"N", "o", "n", "e">>,
     <<"N", "/", "A">>, <<"n", "/", "a">>}

IsIntText(s) == Len(s) >= 1 /\ \A i \in 1..Len(s) : s[i] \in Digits

RECURSIVE IntOf(_)
IntOf(s) == IF s = <<>> THEN 0 ELSE 10 * IntOf(SubSeq(s, 1, Len(s) - 1)) + DigitValue(s[Len(s)])

\* str(n) of a non-negative int
RECURSIVE IntText(_)
IntText(n) == IF n < 10 THEN <<DigitChars[n + 1]>> ELSE IntText(n \div 10) \o <<DigitChars[(n % 10) + 1]>>

\* digits "." digit
IsFloatText(s) ==
    /\ Len(s) >= 3
    /\ s[Len(s) - 1] = "."
    /\ s[Len(s)] \in Digits
    /\ IsIntText(SubSeq(s, 1, Len(s) - 2))

TenthsOf(s) == 10 * IntOf(SubSeq(s, 1, Len(s) - 2)) + DigitValue(s[Len(s)])

\* repr of a float: 3.0, 0.5, 123.0
FloatText(tenths) == IntText(tenths \div 10) \o <<".">> \o IntText(tenths % 10)

\* to_csv: what one value is written as; a missing value is written empty
CellText(v) ==
    CASE v.t = "str" -> v.s
      [] v.t = "int" -> IntText(v.n)
      [] v.t = "float" -> FloatText(v.n)
      [] v.t = "nan" -> <<>>

\* read_csv's type inference over one column: int64 when every cell is an
\* integer, float64 when every cell is a number or missing, else object
\* (the texts as they are, the missing ones NaN). An all-digit text is
\* read by its value: 07 is the integer 7, and is written back as 7
ColumnDtype(cells) ==
    IF \A i \in 1..Len(cells) : IsIntText(cells[i]) THEN "int64"
    ELSE IF \A i \in 1..Len(cells) :
                cells[i] \in NaTexts \/ IsIntText(cells[i]) \/ IsFloatText(cells[i])
         THEN "float64"
         ELSE "object"

ReadColumn(cells) ==
    LET dtype == ColumnDtype(cells)
    IN  [i \in 1..Len(cells) |->
            CASE dtype = "int64" -> IntVal(IntOf(cells[i]))
              [] dtype = "float64" ->
                    IF cells[i] \in NaTexts THEN NaN
                    ELSE IF IsIntText(cells[i]) THEN FloatVal(10 * IntOf(cells[i]))
                    ELSE FloatVal(TenthsOf(cells[i]))
              [] dtype = "object" ->
                    IF cells[i] \in NaTexts THEN NaN ELSE StrVal(cells[i])]

\* a == b on two cell values, as pandas compares a column with a scalar
PyEq(a, b) ==
    CASE a.t = "nan" \/ b.t = "nan" -> FALSE
      [] a.t = "str" /\ b.t = "str" -> a.s = b.s
      [] a.t = "str" \/ b.t = "str" -> FALSE
      [] a.t = b.t -> a.n = b.n
      [] a.t = "int" -> 10 * a.n = b.n
      [] OTHER -> a.n = 10 * b.n

-----------------------------------------------------------------------------
(* The results file and the two store functions.                            *)

\* the keys of a record, the columns of the file
Columns ==
    {"timestamp", "user", "paper_id", "review_type", "reviewer_confidence",
     "review_thoroughness", "constructiveness", "helpfulness"}
ScoreColumns ==
    {"reviewer_confidence", "review_thoroughness", "constructiveness", "helpfulness"}

\* a file: absent, zero bytes ("empty"), not parseable as CSV ("malformed"),
\* or a header and rows of cell texts ("table")
NoFile == [kind |-> "absent", rows |-> <<>>]
EmptyFile == [kind |-> "empty", rows |-> <<>>]
MalformedFile == [kind |-> "malformed", rows |-> <<>>]
Table(rows) == [kind |-> "table", rows |-> rows]

\* os.path.exists
Exists(f) == f.kind # "absent"

\* pd.read_csv: the exception it raises ("" for none) and the DataFrame
read_csv(f) ==
    CASE f.kind = "empty" -> [raised |-> "EmptyDataError", df |-> <<>>]
      [] f.kind = "malformed" -> [raised |-> "ParserError", df |-> <<>>]
      [] f.kind = "absent" -> [raised |-> "FileNotFoundError", df |-> <<>>]
      [] f.kind = "table" ->
            LET cols == [c \in Columns |-> ReadColumn([i \in 1..Len(f.rows) |-> f.rows[i][c]])]
            IN  [raised |-> "",
                 df |-> [i \in 1..Len(f.rows) |-> [c \in Columns |-> cols[c][i]]]]

\* DataFrame.to_csv(index=False)
to_csv(df) == Table([i \in 1..Len(df) |-> [c \in Columns |-> CellText(df[i][c])]])

\* CombinedFrame with the else branch of line 100 taken always
CombinedFrameNewOnly(f, record) == [raised |-> "", df |-> <<record>>]

\* save_results up to its write: the exception raised ("" for none) and the
\* DataFrame it writes
CombinedFrame(f, record) ==
    IF Exists(f)
    THEN LET r == read_csv(f)
         IN  [raised |-> r.raised,
              df |-> IF r.raised = "" THEN r.df \o <<record>> ELSE <<>>]
    ELSE [raised |-> "", df |-> <<record>>]

\* save_results(results_path, record): the exception and the file afterwards
save_results(f, record) ==
    LET c == CombinedFrame(f, record)
    IN  IF c.raised # "" THEN [raised |-> c.raised, file |-> f]
        ELSE [raised |-> "", file |-> to_csv(c.df)]

\* len(results_df[results_df['user'] == user])
CountUser(df, user) == Cardinality({i \in 1..Len(df) : PyEq(df[i].user, user)})

\* get_user_progress(results_path, user): every exception is caught
get_user_progress(f, user) ==
    IF ~Exists(f) THEN 0
    ELSE LET r == read_csv(f)
         IN  IF r.raised # "" THEN 0
             ELSE IF r.df = <<>> THEN 0
             ELSE CountUser(r.df, user)

\* datetime.now().isoformat(): never a number, distinct at each reading
Timestamp(t) == StrVal(<<"T">> \o IntText(t) \o <<":">>)

\* the record the submit handler builds
Record(t, user, paper_id, review_type, sc) ==
    [timestamp |-> Timestamp(t), user |-> user, paper_id |-> StrVal(paper_id),
     review_type |-> StrVal(review_type),
     reviewer_confidence |-> FloatVal(sc[1]), review_thoroughness |-> FloatVal(sc[2]),
     constructiveness |-> FloatVal(sc[3]), helpfulness |-> FloatVal(sc[4])]

-----------------------------------------------------------------------------
(* The main script: the data it loads and one run of it per interaction.    *)

\* "--- Select User ---"
Placeholder ==
    StrVal(<<"-", "-", "-", " ", "S", "e", "l", "e", "c", "t", " ", "U", "s", "e", "r",
             " ", "-", "-", "-">>)
\* 'user' not in st.session_state
NoUser == [t |-> "unset", s |-> <<>>, n |-> 0]

\* data/user.csv: the cells of its User and annotator_id columns
UserCsv ==
    <<[User |-> <<"a", "l">>, annotator_id |-> <<"1">>],
      [User |-> <<"0", "7">>, annotator_id |-> <<"2">>],
      [User |-> <<"b", "o">>, annotator_id |-> <<"3">>]>>

\* load_data: user_df as pd.read_csv types its two columns
user_df ==
    LET names == ReadColumn([i \in 1..Len(UserCsv) |-> UserCsv[i].User])
        ids == ReadColumn([i \in 1..Len(UserCsv) |-> UserCsv[i].annotator_id])
    IN  [i \in 1..Len(UserCsv) |-> [User |-> names[i], annotator_id |-> ids[i]]]

\* user_df['User'].tolist()
Users == {user_df[i].User : i \in 1..Len(user_df)}

\* data/annotator_mapping.json: annotator id -> [paper_id, review_type] pairs
AnnotatorMap ==
    [k \in {<<"1">>, <<"2">>} |->
        IF k = <<"1">>
        THEN <<<<(<<"0", "7">>), (<<"r", "1">>)>>, <<(<<"p", "2">>), (<<"r", "1">>)>>>>
        ELSE <<<<(<<"p", "2">>), (<<"r", "1">>)>>, <<(<<"0", "7">>), (<<"r", "1">>)>>>>]

\* annotator_map.get(str(annotator_id), []) for the selected user
QueueOf(user) ==
    LET i == Min({j \in 1..Len(user_df) : PyEq(user_df[j].User, user)})
        key == CellText(user_df[i].annotator_id)
    IN  IF key \in DOMAIN AnnotatorMap THEN AnnotatorMap[key] ELSE <<>>

\* the four scores of a submission, in tenths
ValidScores == {<<30, 30, 30, 30>>, <<50, 5, 45, 1>>}

\* st.number_input(min_value=0.0, max_value=5.0), in tenths
ScoreMin == 0
ScoreMax == 50
\* what the form's four inputs can hold when it is submitted
FormInputs ==
    {sc \in ValidScores \cup {<<0, 30, 30, 30>>, <<30, 30, 30, 0>>, <<30, 30, 30, 51>>} :
        \A k \in 1..4 : ScoreMin <= sc[k] /\ sc[k] <= ScoreMax}

\* check_if_all_rated with the helpfulness key left out of score_keys
CheckFirstThreeRated(sc) == \A k \in 1..3 : sc[k] # 0

\* check_if_all_rated
check_if_all_rated(sc) == \A k \in 1..4 : sc[k] # 0

\* what a run renders, from the selectbox and the session state
ScreenOf(sel, queue, idx) ==
    IF sel = Placeholder THEN "info"
    ELSE IF queue = <<>> THEN "warning"
    ELSE IF idx >= Len(queue) THEN "done"
    ELSE "form"

\* the session state's user differs from the selection, or is not set
NeedsInit(sel) == ss_user = NoUser \/ ~PyEq(ss_user, sel)

\* IndexAfterSave with line 208 moved above line 204
IndexAdvancedBeforeSave(idx, saved) == idx + 1

\* review_index after a submission whose save_results returned or raised
IndexAfterSave(idx, saved) == IF saved THEN idx + 1 ELSE idx

\* the processes that call save_results on the same file
Writers == {1, 2}
NoRecord == Record(0, NaN, <<>>, <<>>, <<0, 0, 0, 0>>)

\* the variables of a part of the program that a specification does not run
ParseIdle ==
    /\ review_text = [isstr |-> TRUE, s |-> <<>>]
    /\ n_pieces = 0
    /\ matches = NoMatches
    /\ sections = NoSections
    /\ parse_pc = "input"

SessionIdle ==
    /\ ss_user = NoUser
    /\ review_index = 0
    /\ review_queue = <<>>
    /\ scores = <<0, 0, 0, 0>>
    /\ selected_user = Placeholder
    /\ screen = "info"
    /\ write_failed = FALSE

RaceIdle ==
    /\ wpc = [w \in Writers |-> "idle"]
    /\ wrec = [w \in Writers |-> NoRecord]
    /\ wframe = [w \in Writers |-> <<>>]
    /\ overlapped = FALSE

StoreIdle ==
    /\ file = NoFile
    /\ now = 0
    /\ submitted = <<>>
    /\ queried = NaN
    /\ progress = 0
    /\ outcome = "none"

Init ==
    /\ file \in {NoFile, EmptyFile, MalformedFile, Table(<<>>)}
    /\ now = 0
    /\ submitted = <<>>
    /\ queried = NaN
    /\ progress = 0
    /\ outcome = "none"
    /\ ParseIdle
    /\ SessionIdle
    /\ RaceIdle

\* the annotator picks an entry of the selectbox: the script runs with it
SelectUser ==
    \E sel \in Users \cup {Placeholder} :
        /\ sel # selected_user
        /\ selected_user' = sel
        /\ IF sel # Placeholder /\ NeedsInit(sel)
           THEN /\ ss_user' = sel
                /\ queried' = sel
                /\ progress' = get_user_progress(file, sel)
                /\ review_index' = progress'
                /\ review_queue' = QueueOf(sel)
           ELSE UNCHANGED <<ss_user, queried, progress, review_index, review_queue>>
        /\ screen' = ScreenOf(sel, review_queue', review_index')
        /\ outcome' = "none"
        /\ UNCHANGED <<file, now, submitted, scores, write_failed, parse_vars, race_vars>>

\* the annotator submits the form: the script runs with submitted = True.
\* written says whether to_csv completes, and truncated what a failed to_csv
\* leaves of the file it had opened for writing
Submit ==
    /\ screen = "form"
    /\ \E sc \in FormInputs :
        /\ scores' = sc
        /\ IF ~check_if_all_rated(sc)
           THEN /\ outcome' = "rejected"
                /\ UNCHANGED <<file, now, submitted, review_index, screen, write_failed>>
           ELSE /\ now < MaxRecords
                /\ now' = now + 1
                /\ \E written \in BOOLEAN, truncated \in BOOLEAN :
                    LET current == review_queue[review_index + 1]
                        record == Record(now + 1, selected_user, current[1], current[2], sc)
                        c == CombinedFrame(file, record)
                        saved == c.raised = "" /\ written
                    IN  /\ outcome' = IF c.raised # "" THEN "read_raised"
                                      ELSE IF written THEN "saved" ELSE "write_raised"
                        /\ file' = IF saved THEN to_csv(c.df)
                                   ELSE IF c.raised = "" /\ truncated THEN EmptyFile
                                   ELSE file
                        /\ write_failed' = (write_failed \/ (c.raised = "" /\ ~written))
                        /\ submitted' = IF saved THEN Append(submitted, record) ELSE submitted
                        /\ review_index' = IndexAfterSave(review_index, saved)
                        /\ screen' = ScreenOf(selected_user, review_queue, review_index')
    /\ UNCHANGED <<ss_user, review_queue, selected_user, queried, progress, parse_vars,
                   race_vars>>

Next == SelectUser \/ Submit

Spec == Init /\ [][Next]_vars

-----------------------------------------------------------------------------
(* The store's specification: callers append records and ask for a user's  *)
(* progress.                                                                *)

\* user names: plain, all digits, read as missing
StoreUsers == {<<"a", "l">>, <<"0", "7">>, <<"N", "A">>}
PaperIds == {<<"0", "7">>, <<"p", "2">>}
ReviewTypes == {<<"r", "1">>}

InitStore ==
    /\ file \in {NoFile, EmptyFile, MalformedFile, Table(<<>>)}
    /\ now = 0
    /\ submitted = <<>>
    /\ queried = NaN
    /\ progress = 0
    /\ outcome = "none"
    /\ ParseIdle
    /\ SessionIdle
    /\ RaceIdle

\* save_results(RESULTS_CSV_PATH, record) with a record built now
SaveResults ==
    /\ now < MaxRecords
    /\ \E u \in StoreUsers, p \in PaperIds, rt \in ReviewTypes, sc \in ValidScores :
        LET record == Record(now + 1, StrVal(u), p, rt, sc)
            r == save_results(file, record)
        IN  /\ file' = r.file
            /\ outcome' = IF r.raised = "" THEN "saved" ELSE "raised"
            /\ submitted' = IF r.raised = "" THEN Append(submitted, record) ELSE submitted
    /\ now' = now + 1
    /\ UNCHANGED <<queried, progress, parse_vars, session_vars, race_vars>>

\* get_user_progress(RESULTS_CSV_PATH, user)
GetUserProgress ==
    /\ \E u \in StoreUsers :
        /\ queried' = StrVal(u)
        /\ progress' = get_user_progress(file, StrVal(u))
    /\ outcome' = "returned"
    /\ UNCHANGED <<file, now, submitted, parse_vars, session_vars, race_vars>>

NextStore == SaveResults \/ GetUserProgress

SpecStore == InitStore /\ [][NextStore]_vars

-----------------------------------------------------------------------------
(* Two processes in save_results on one file. Each call is three steps: the *)
(* exists test and read_csv and concat; to_csv opening the file for writing *)
(* (which truncates it); to_csv writing the rows.                           *)

InitRace ==
    /\ file = NoFile
    /\ now = 0
    /\ submitted = <<>>
    /\ queried = NaN
    /\ progress = 0
    /\ outcome = "none"
    /\ ParseIdle
    /\ SessionIdle
    /\ RaceIdle

\* lines 95-100: new_data, and combined_df from the file as it is now
BeginSave(w) ==
    /\ wpc[w] = "idle"
    /\ now < MaxRecords
    /\ now' = now + 1
    /\ \E u \in StoreUsers \ {<<"N", "A">>}, p \in PaperIds :
        LET record == Record(now + 1, StrVal(u), p, <<"r", "1">>, <<30, 30, 30, 30>>)
            c == CombinedFrame(file, record)
        IN  IF c.raised # ""
            THEN /\ outcome' = "raised"
                 /\ UNCHANGED <<wpc, wrec, wframe, overlapped>>
            ELSE /\ outcome' = "none"
                 /\ wpc' = [wpc EXCEPT ![w] = "read"]
                 /\ wrec' = [wrec EXCEPT ![w] = record]
                 /\ wframe' = [wframe EXCEPT ![w] = c.df]
                 /\ overlapped' = (overlapped \/ \E v \in Writers \ {w} : wpc[v] = "read")
    /\ UNCHANGED <<file, submitted, queried, progress, parse_vars, session_vars>>

\* line 101, to_csv opens the file for writing
OpenForWrite(w) ==
    /\ wpc[w] = "read"
    /\ wpc' = [wpc EXCEPT ![w] = "open"]
    /\ file' = EmptyFile
    /\ UNCHANGED <<now, submitted, queried, progress, outcome, wrec, wframe, overlapped,
                   parse_vars, session_vars>>

\* line 101, to_csv writes combined_df and save_results returns
WriteOut(w) ==
    /\ wpc[w] = "open"
    /\ wpc' = [wpc EXCEPT ![w] = "idle"]
    /\ file' = to_csv(wframe[w])
    /\ submitted' = Append(submitted, wrec[w])
    /\ outcome' = "saved"
    /\ UNCHANGED <<now, queried, progress, wrec, wframe, overlapped, parse_vars,
                   session_vars>>

NextRace == \E w \in Writers : BeginSave(w) \/ OpenForWrite(w) \/ WriteOut(w)

SpecRace == InitRace /\ [][NextRace]_vars

-----------------------------------------------------------------------------
(* The parser's specification: a review text is assembled from pieces and  *)
(* parsed.                                                                  *)

Pieces ==
    {MarkerSummary, MarkerStrengths, MarkerWeaknesses, MarkerQuestions,
     <<"\n", "-", " ", "a">>, <<"\n", "-", " ", "b", " ", "c">>,
     <<"\n">>, <<"-">>, <<"a", "-", "b">>}

InitParse ==
    /\ StoreIdle
    /\ SessionIdle
    /\ RaceIdle
    /\ review_text \in {[isstr |-> TRUE, s |-> <<>>], [isstr |-> FALSE, s |-> <<>>]}
    /\ n_pieces = 0
    /\ matches = NoMatches
    /\ sections = NoSections
    /\ parse_pc = "input"

\* the caller appends a piece to the text it will pass
ExtendText ==
    /\ parse_pc = "input"
    /\ review_text.isstr
    /\ n_pieces < MaxPieces
    /\ \E p \in Pieces :
        review_text' = [review_text EXCEPT !.s = @ \o p]
    /\ n_pieces' = n_pieces + 1
    /\ UNCHANGED <<matches, sections, parse_pc, store_vars, session_vars, race_vars>>

\* parse_review(review_text)
Parse ==
    /\ parse_pc = "input"
    /\ matches' = IF review_text.isstr THEN SectionMatches(review_text.s) ELSE NoMatches
    /\ sections' = parse_review(review_text)
    /\ parse_pc' = "parsed"
    /\ UNCHANGED <<review_text, n_pieces, store_vars, session_vars, race_vars>>

NextParse == ExtendText \/ Parse

SpecParse == InitParse /\ [][NextParse]_vars

-----------------------------------------------------------------------------
(* Claims about parse_review.                                               *)

MarkerOf(n) ==
    CASE n = "Summary" -> MarkerSummary
      [] n = "Strengths" -> MarkerStrengths
      [] n = "Weaknesses" -> MarkerWeaknesses
      [] n = "Questions" -> MarkerQuestions

\* the markers that follow section n in the fixed order
LaterMarkers(n) ==
    CASE n = "Summary" -> <<MarkerStrengths, MarkerWeaknesses, MarkerQuestions>>
      [] n = "Strengths" -> <<MarkerWeaknesses, MarkerQuestions>>
      [] n = "Weaknesses" -> <<MarkerQuestions>>
      [] n = "Questions" -> <<>>

\* where a section that starts at b ends: before the nearest later marker (in
\* the fixed order) that occurs after b, at the end of s when none does
RECURSIVE EndBeforeNextPresent(_, _, _)
EndBeforeNextPresent(later, s, b) ==
    IF later = <<>> THEN Len(s)
    ELSE LET e == Find(Head(later), s, b)
         IN  IF e # 0 THEN e - 1 ELSE EndBeforeNextPresent(Tail(later), s, b)

ContentToNextPresent(n, s) ==
    LET b == Find(MarkerOf(n), s, 1) + Len(MarkerOf(n))
    IN  SubSeq(s, b, EndBeforeNextPresent(LaterMarkers(n), s, b))

\* C3: the content of every located section is the text between its marker
\* and the next marker of the fixed order that is present, and runs to the
\* end of the text only when no later marker follows it
C3_ContentEndsAtNextPresentMarker ==
    (parse_pc = "parsed" /\ review_text.isstr) =>
        \A n \in SectionNames :
            matches[n].found => matches[n].group = ContentToNextPresent(n, review_text.s)

\* the lines of a section's stripped content
ContentLines(group) == Split(Strip(group), <<"\n">>)

\* a line "- <text>": text non-empty, no surrounding whitespace, no leading hyphen
IsBulletLine(line) ==
    /\ Len(line) >= 3
    /\ line[1] = "-"
    /\ line[2] = " "
    /\ line[3] \notin Whitespace \cup {"-"}
    /\ line[Len(line)] \notin Whitespace

IsBulletBlock(group) ==
    LET lines == ContentLines(group)
    IN  \A i \in 1..Len(lines) : IsBulletLine(lines[i])

BulletTexts(group) ==
    LET lines == ContentLines(group)
    IN  [i \in 1..Len(lines) |-> SubSeq(lines[i], 3, Len(lines[i]))]

-----------------------------------------------------------------------------
(* Claims about the store.                                                  *)

\* the number of records of a log whose user is u
Appended(log, u) == Cardinality({i \in 1..Len(log) : log[i].user = u})

\* C1: after N completed appends with user U and any number with other
\* users, from a store that did not exist or was empty, get_user_progress(U)
\* returns N
C1_ProgressCountsAppends ==
    outcome = "returned" => progress = Appended(submitted, queried)

\* the text of one record in the file
RowText(record) == [c \in Columns |-> CellText(record[c])]

\* C2: a completed save_results call leaves every earlier row of the store
\* as it was, in its place, and adds the new record as the last row
C2_AppendOnly ==
    [][(outcome' = "saved" /\ Len(submitted') = Len(submitted) + 1)
        => file'.rows = Append(file.rows, RowText(submitted'[Len(submitted')]))]_vars

\* the rows of the file whose user field is the text of u
RowsOfUser(f, u) == Cardinality({i \in 1..Len(f.rows) : f.rows[i].user = u.s})

\* C5: get_user_progress returns 0 for a store that does not exist, is empty
\* or cannot be read, and otherwise the number of records whose user field
\* equals the user
C5_ProgressIsZeroOrCount ==
    outcome = "returned" =>
        progress = IF file.kind # "table" \/ file.rows = <<>> THEN 0
                   ELSE RowsOfUser(file, queried)

-----------------------------------------------------------------------------
(* Claims about the session.                                                *)

Unreadable(f) == f.kind \in {"empty", "malformed"}

\* C6: while the store exists but cannot be read, get_user_progress reports
\* 0 and a submission with four non-zero scores (whose write does not fail)
\* still completes its append and advances to the next review
C6_UnreadableStoreNeverBlocks ==
    /\ [](Unreadable(file) => \A u \in Users : get_user_progress(file, u) = 0)
    /\ [][(Unreadable(file) /\ outcome' \in {"saved", "read_raised"})
            => (outcome' = "saved" /\ review_index' = review_index + 1
                /\ file'.kind = "table")]_vars

\* the tenths a score cell of the file reads as
ScoreOfCell(cell) == IF IsFloatText(cell) THEN TenthsOf(cell) ELSE 0

\* C7: every record appended has its four scores non-zero and within
\* [0.0, 5.0], in the call and in the file; a submission with a score of 0.0
\* appends nothing and leaves review_index as it was
C7_OnlyFullyRatedRecords ==
    /\ [](\A i \in 1..Len(submitted) : \A c \in ScoreColumns :
            submitted[i][c].t = "float" /\ submitted[i][c].n \in 1..ScoreMax)
    /\ [](\A i \in 1..Len(file.rows) : \A c \in ScoreColumns :
            ScoreOfCell(file.rows[i][c]) \in 1..ScoreMax)
    /\ [][(outcome' # "none" /\ \E k \in 1..4 : scores'[k] = 0)
            => (outcome' = "rejected" /\ file' = file /\ submitted' = submitted
                /\ review_index' = review_index /\ screen' = screen)]_vars

\* a submission with a zero was turned down after a record had been appended
C7_Witness ==
    /\ outcome = "rejected"
    /\ scores[4] = 0
    /\ Len(submitted) = 1
    /\ Len(file.rows) = 1
    /\ review_index = 1

\* C8: when save_results raises during a submission (reading the store or
\* rewriting it), review_index is not advanced, no record counts as
\* submitted and the same review stays the current one
C8_FailedSaveDoesNotAdvance ==
    [][(outcome' \in {"read_raised", "write_raised"})
        => (review_index' = review_index /\ submitted' = submitted
            /\ review_queue' = review_queue /\ ss_user' = ss_user
            /\ screen' = "form")]_vars

\* the rewrite of the second review's record failed; the second review stays
C8_Witness ==
    /\ outcome = "write_raised"
    /\ review_index = 1
    /\ Len(submitted) = 1
    /\ screen = "form"

\* C10: whenever a form is shown for user U (no write having failed),
\* review_index is the number of U's records in the store, and is below the
\* length of U's queue
C10_IndexIsUsersProgress ==
    (screen = "form" /\ ~write_failed) =>
        /\ review_index = Appended(submitted, selected_user)
        /\ review_index < Len(review_queue)

-----------------------------------------------------------------------------
(* Claims about concurrent writers.                                         *)

\* the completed appends whose record is not in the file
Lost == {i \in 1..Len(submitted) :
            \A j \in 1..Len(file.rows) :
                file.rows[j].timestamp # CellText(submitted[i].timestamp)}

AllIdle == \A w \in Writers : wpc[w] = "idle"

\* C9: save_results is not atomic: once both processes are out of it, a
\* completed append is missing from the store exactly when one process read
\* the file while the other held a DataFrame it had not yet written
C9_LostExactlyWhenOverlapped ==
    AllIdle => ((Lost # {}) <=> overlapped)

\* both calls returned and the store holds one of the two records
C9_Witness ==
    /\ AllIdle
    /\ Len(submitted) = 2
    /\ submitted[1].user # submitted[2].user
    /\ file.kind = "table"
    /\ Len(file.rows) = 1
    /\ Cardinality(Lost) = 1

====
